---- MODULE Spec2Model ----
(***************************************************************************)
(* rstrtr: the supervision loop of src/main.rs, fn run (lines 75-132),     *)
(* together with its environment: the Restart and Quit subcommands         *)
(* (lines 58-63) acting on the control file, the debounced watcher that    *)
(* feeds the channel rx (lines 78-80), and the life of the child process.  *)
(*                                                                         *)
(* run() is modelled statement by statement; pc is the position in run().  *)
(* Everything the operating system decides (whether a call fails, when a   *)
(* child exits, when the debounce timer lapses) is a nondeterministic      *)
(* choice.                                                                 *)
(***************************************************************************)
EXTENDS Naturals, Sequences, FiniteSets, TLC

\* Bounds of the environment (not of the program).
MaxEnv == 3     \* external commands, stray events, self-exits and try_wait
                \* errors, taken together

VARIABLES
    pc,          \* position in run()
    keep_going,  \* line 82
    restart,     \* line 96
    msg,         \* what recv_timeout returned in the current cycle (line 97)
    rx,          \* the channel: events sent by the watcher, not yet received
    delivered,   \* history: every event the watcher sent, in the order sent
    file,        \* the control file: "absent" or "present"
    ctlOps,      \* number of writes/deletes run() itself made to the control file
    watch,       \* "off" (not attached), "on", "stale" (the watched file was removed)
    pending,     \* the debouncer's pending operation: "none", "write", "remove"
    burst,       \* raw events seen in the current (or last) debounce window
    windows,     \* number of debounce windows opened so far
    proc,        \* one record per spawned generation; the last one is `proc`
    spawns,      \* number of calls of Command::spawn
    out,         \* lines printed on stdout
    result,      \* "running", "ok" (Ok(()), exit 0), "err" (Err, non-zero exit)
    consumed,    \* history: events received, each with the generation current
                 \* then and whether a Remove was queued behind it
    kills,       \* history: calls of proc.kill(), each with generation and outcome
    cycleKill,   \* history: proc.kill() was called in the current cycle
    budget       \* number of environment perturbations so far

\* The channel of line 78, with its history.
channel == <<rx, delivered>>

\* The state of the debouncing watcher thread.
debouncer == <<pending, burst, windows>>

vars == <<pc, keep_going, restart, msg, channel, file, ctlOps, watch, debouncer,
          proc, spawns, out, result, consumed, kills, cycleKill, budget>>

progVars == <<pc, keep_going, restart, msg, ctlOps, spawns, out, result,
              consumed, kills, cycleKill>>

Events == {"Write", "Remove", "NoticeWrite", "NoticeRemove", "Other"}

\* The current generation (0 before the first successful spawn).
gen == Len(proc)

\* Status of a child: running; dying (SIGKILL sent, not yet dead); zombie
\* (exited, not yet waited for); reaped (try_wait returned its status).
Alive(g) == proc[g].st \in {"running", "dying"}
Unreaped(g) == proc[g].st # "reaped"

println(line) == out' = Append(out, line)

Init ==
    /\ pc = "write"
    /\ keep_going = TRUE
    /\ restart = FALSE
    /\ msg = "None"
    /\ rx = <<>>
    /\ delivered = <<>>
    /\ file \in {"absent", "present"}
    /\ ctlOps = 0
    /\ watch = "off"
    /\ pending = "none"
    /\ burst = 0
    /\ windows = 0
    /\ proc = <<>>
    /\ spawns = 0
    /\ out = <<>>
    /\ result = "running"
    /\ consumed = <<>>
    /\ kills = <<>>
    /\ cycleKill = FALSE
    /\ budget = 0

(***************************************************************************)
(* run(): start-up, lines 76-82.                                           *)
(***************************************************************************)

\* A `?` that propagates an error: run() returns Err (lines 76, 79, 80).
ReturnErr ==
    /\ pc' = "done"
    /\ result' = "err"

\* line 76: std::fs::write(&flags.rstrtr, "\n")?
WriteCtl ==
    /\ pc = "write"
    /\ \/ /\ file' = "present"
          /\ ctlOps' = ctlOps + 1
          /\ pc' = "watcher"
          /\ UNCHANGED result
       \/ /\ ReturnErr
          /\ UNCHANGED <<file, ctlOps>>
    /\ UNCHANGED <<keep_going, restart, msg, channel, watch, debouncer, proc, spawns,
                   out, consumed, kills, cycleKill, budget>>

\* lines 78-79: channel(); watcher(tx, Duration::from_millis(100))?
NewWatcher ==
    /\ pc = "watcher"
    /\ \/ /\ pc' = "watch"
          /\ UNCHANGED result
       \/ ReturnErr
    /\ UNCHANGED <<keep_going, restart, msg, channel, file, ctlOps, watch, debouncer,
                   proc, spawns, out, consumed, kills, cycleKill, budget>>

\* Mutant of AttachWatch: the error of watch() is ignored instead of propagated.
AttachWatch_Ignored ==
    /\ pc = "watch"
    /\ \/ /\ file = "present"
          /\ watch' = "on"
       \/ UNCHANGED watch
    /\ pc' = "while"
    /\ UNCHANGED <<keep_going, restart, msg, channel, file, ctlOps, debouncer, proc,
                   spawns, out, result, consumed, kills, cycleKill, budget>>

\* line 80: watcher.watch(&flags.rstrtr, NonRecursive)?  A path that does not
\* exist cannot be watched; an existing one may still fail to be.
AttachWatch ==
    /\ pc = "watch"
    /\ \/ /\ file = "present"
          /\ watch' = "on"
          /\ pc' = "while"
          /\ UNCHANGED result
       \/ /\ ReturnErr
          /\ UNCHANGED watch
    /\ UNCHANGED <<keep_going, restart, msg, channel, file, ctlOps, debouncer, proc,
                   spawns, out, consumed, kills, cycleKill, budget>>

(***************************************************************************)
(* run(): the outer loop, lines 83-128.                                    *)
(***************************************************************************)

\* Mutant of WhileCond: the outer loop does not test keep_going.
WhileCond_Always == TRUE

\* line 83: while keep_going
WhileCond == keep_going

While ==
    /\ pc = "while"
    /\ pc' = IF WhileCond THEN "spawn" ELSE "quit"
    /\ UNCHANGED <<keep_going, restart, msg, channel, file, ctlOps, watch, debouncer,
                   proc, spawns, out, result, consumed, kills, cycleKill, budget>>

\* Mutant of SpawnErr: `continue` instead of `break`, the spawn is retried.
SpawnErr_Retry ==
    /\ println("Error executing command")
    /\ pc' = "while"
    /\ UNCHANGED proc

\* lines 87-90: Err(e) => { println!("Error {:?} executing command", e); break; }
SpawnErr ==
    /\ println("Error executing command")
    /\ pc' = "quit"
    /\ UNCHANGED proc

\* lines 85-93: Command::new(..).spawn()
Spawn ==
    /\ pc = "spawn"
    /\ spawns' = spawns + 1
    /\ \/ /\ proc' = Append(proc, [st |-> "running", cause |-> "none"])
          /\ pc' = "recv"
          /\ UNCHANGED out
       \/ SpawnErr
    /\ UNCHANGED <<keep_going, restart, msg, channel, file, ctlOps, watch, debouncer,
                   result, consumed, kills, cycleKill, budget>>

(***************************************************************************)
(* run(): one poll cycle, lines 95-124.                                    *)
(***************************************************************************)

HasRemove(q) == \E i \in DOMAIN q : q[i] = "Remove"

\* Mutant of OnMsg: every event that is not a Remove requests a restart.
OnMsg_AnyRestarts(m) ==
    /\ restart' = (m \notin {"Remove", "Timeout"})
    /\ keep_going' = IF m = "Remove" THEN FALSE ELSE keep_going

\* Mutant of OnMsg: restart is not reset at the top of the cycle.
OnMsg_Sticky(m) ==
    /\ restart' = (restart \/ m = "Write")
    /\ keep_going' = IF m = "Remove" THEN FALSE ELSE keep_going

\* lines 98-106: the match on the received message.
OnMsg(m) ==
    /\ restart' = (m = "Write")
    /\ keep_going' = IF m = "Remove" THEN FALSE ELSE keep_going

\* Mutant of Recv: the newest queued event is received instead of the oldest.
Recv_Newest ==
    /\ pc = "recv"
    /\ IF rx # <<>>
       THEN /\ msg' = rx[Len(rx)]
            /\ rx' = SubSeq(rx, 1, Len(rx) - 1)
            /\ consumed' = Append(consumed, [ev |-> rx[Len(rx)], gen |-> gen,
                                              quitq |-> FALSE])
       ELSE /\ msg' = "Timeout"
            /\ UNCHANGED <<rx, consumed>>
    /\ OnMsg(msg')
    /\ cycleKill' = FALSE
    /\ pc' = "kill"
    /\ UNCHANGED <<delivered, file, ctlOps, watch, debouncer, proc, spawns, out,
                   result, kills, budget>>

\* lines 96-107: restart = false; rx.recv_timeout(50ms).  The call returns the
\* oldest queued event, and times out only on an empty channel.
Recv ==
    /\ pc = "recv"
    /\ IF rx # <<>>
       THEN /\ msg' = Head(rx)
            /\ rx' = Tail(rx)
            /\ consumed' = Append(consumed, [ev |-> Head(rx), gen |-> gen,
                                              quitq |-> HasRemove(Tail(rx))])
       ELSE /\ msg' = "Timeout"
            /\ UNCHANGED <<channel, consumed>>
    /\ OnMsg(msg')
    /\ cycleKill' = FALSE
    /\ pc' = "kill"
    /\ UNCHANGED <<delivered, file, ctlOps, watch, debouncer, proc, spawns, out,
                   result, kills, budget>>

\* Mutant of KillCond: only a quit kills the child.
KillCond_QuitOnly == ~keep_going

\* line 108: if restart || !keep_going
KillCond == restart \/ ~keep_going

\* line 109: let _ = proc.kill();  SIGKILL to the current child; the result is
\* discarded.  A successful signal makes a running child die (asynchronously);
\* a child that already exited but was not waited for is unaffected.
Kill(ok) ==
    /\ kills' = Append(kills, [gen |-> gen, ok |-> ok, ev |-> msg])
    /\ cycleKill' = TRUE
    /\ proc' = IF ok /\ proc[gen].st = "running"
               THEN [proc EXCEPT ![gen].st = "dying"]
               ELSE proc

\* Mutant of KillStep: the error of kill() is propagated (`proc.kill()?`).
KillStep_Fatal ==
    /\ pc = "kill"
    /\ IF KillCond
       THEN \E ok \in BOOLEAN :
              /\ Kill(ok)
              /\ IF ok THEN pc' = "brk" /\ UNCHANGED result ELSE ReturnErr
       ELSE pc' = "brk" /\ UNCHANGED <<kills, cycleKill, proc, result>>
    /\ UNCHANGED <<keep_going, restart, msg, channel, file, ctlOps, watch, debouncer,
                   spawns, out, consumed, budget>>

\* lines 108-110
KillStep ==
    /\ pc = "kill"
    /\ IF KillCond
       THEN \E ok \in BOOLEAN : Kill(ok)
       ELSE UNCHANGED <<kills, cycleKill, proc>>
    /\ pc' = "brk"
    /\ UNCHANGED <<keep_going, restart, msg, channel, file, ctlOps, watch, debouncer,
                   spawns, out, result, consumed, budget>>

\* Mutant of BreakCond: the quit does not leave the poll loop.
BreakCond_Never == FALSE

\* Mutant of BreakCond: a requested restart leaves the poll loop at once.
BreakCond_OnRestart == ~keep_going \/ restart

\* line 111: if !keep_going { break; }
BreakCond == ~keep_going

\* lines 111-113
Brk ==
    /\ pc = "brk"
    /\ pc' = IF BreakCond THEN "after" ELSE "try_wait"
    /\ UNCHANGED <<keep_going, restart, msg, channel, file, ctlOps, watch, debouncer,
                   proc, spawns, out, result, consumed, kills, cycleKill, budget>>

\* Mutant of TryWaitExited: an exit status is treated like Ok(None).
TryWaitExited_AsNone ==
    /\ pc = "try_wait"
    /\ proc[gen].st = "zombie"
    /\ pc' = "recv"
    /\ UNCHANGED <<keep_going, restart, msg, channel, file, ctlOps, watch, debouncer,
                   proc, spawns, out, result, consumed, kills, cycleKill, budget>>

\* lines 115-118: Ok(Some(exit)) => { println!("Exit {}", exit); break; }
TryWaitExited ==
    /\ pc = "try_wait"
    /\ proc[gen].st = "zombie"
    /\ proc' = [proc EXCEPT ![gen].st = "reaped"]
    /\ println("Exit")
    /\ pc' = "after"
    /\ UNCHANGED <<keep_going, restart, msg, channel, file, ctlOps, watch, debouncer,
                   spawns, result, consumed, kills, cycleKill, budget>>

\* Mutant of TryWaitNone: a requested restart leaves the poll loop although
\* the child has not exited.
TryWaitNone_Respawn ==
    /\ pc = "try_wait"
    /\ Alive(gen)
    /\ pc' = IF restart THEN "after" ELSE "recv"
    /\ UNCHANGED <<keep_going, restart, msg, channel, file, ctlOps, watch, debouncer,
                   proc, spawns, out, result, consumed, kills, cycleKill, budget>>

\* line 119: Ok(None) => {}
TryWaitNone ==
    /\ pc = "try_wait"
    /\ Alive(gen)
    /\ pc' = "recv"
    /\ UNCHANGED <<keep_going, restart, msg, channel, file, ctlOps, watch, debouncer,
                   proc, spawns, out, result, consumed, kills, cycleKill, budget>>

\* Mutant of TryWaitErr: an error of try_wait ends the generation.
TryWaitErr_Break ==
    /\ pc = "try_wait"
    /\ budget < MaxEnv
    /\ budget' = budget + 1
    /\ println("Error try_wait on process")
    /\ pc' = "after"
    /\ UNCHANGED <<keep_going, restart, msg, channel, file, ctlOps, watch, debouncer,
                   proc, spawns, result, consumed, kills, cycleKill>>

\* lines 120-122: Err(e) => { println!("Error {:?} try_wait on process", e); }
TryWaitErr ==
    /\ pc = "try_wait"
    /\ budget < MaxEnv
    /\ budget' = budget + 1
    /\ println("Error try_wait on process")
    /\ pc' = "recv"
    /\ UNCHANGED <<keep_going, restart, msg, channel, file, ctlOps, watch, debouncer,
                   proc, spawns, result, consumed, kills, cycleKill>>

\* Mutant of After: "Restarting..." is printed without testing keep_going.
After_Always ==
    /\ pc = "after"
    /\ println("Restarting...")
    /\ pc' = "while"
    /\ UNCHANGED <<keep_going, restart, msg, channel, file, ctlOps, watch, debouncer,
                   proc, spawns, result, consumed, kills, cycleKill, budget>>

\* lines 125-127: if keep_going { println!("Restarting..."); }
After ==
    /\ pc = "after"
    /\ IF keep_going THEN println("Restarting...") ELSE UNCHANGED out
    /\ pc' = "while"
    /\ UNCHANGED <<keep_going, restart, msg, channel, file, ctlOps, watch, debouncer,
                   proc, spawns, result, consumed, kills, cycleKill, budget>>

\* line 131: Ok(())
QuitResult == "ok"

\* Mutant of Quit: the control file is removed on the way out.
Quit_Cleanup ==
    /\ pc = "quit"
    /\ println("Quitting...")
    /\ result' = QuitResult
    /\ file' = "absent"
    /\ ctlOps' = ctlOps + 1
    /\ pc' = "done"
    /\ UNCHANGED <<keep_going, restart, msg, channel, watch, debouncer,
                   proc, spawns, consumed, kills, cycleKill, budget>>

\* lines 129-131: println!("Quitting..."); Ok(())
Quit ==
    /\ pc = "quit"
    /\ println("Quitting...")
    /\ result' = QuitResult
    /\ pc' = "done"
    /\ UNCHANGED <<keep_going, restart, msg, channel, file, ctlOps, watch, debouncer,
                   proc, spawns, consumed, kills, cycleKill, budget>>

Supervisor ==
    \/ WriteCtl \/ NewWatcher \/ AttachWatch
    \/ While \/ Spawn
    \/ Recv \/ KillStep \/ Brk
    \/ TryWaitExited \/ TryWaitNone \/ TryWaitErr
    \/ After \/ Quit

(***************************************************************************)
(* The environment: the Restart and Quit subcommands, the debouncing       *)
(* watcher thread, and the child process.                                  *)
(***************************************************************************)

\* The watcher sees a change of the control file while attached; once the
\* watched file was removed, whether changes of a file recreated at the same
\* path are still reported depends on the platform.
Seen(s) == \/ watch = "on" /\ s
           \/ watch = "stale"
           \/ watch = "off" /\ ~s

\* The debouncer (100 ms, line 79) on a raw write: the first raw event of a
\* window is announced at once (NoticeWrite), the Write itself is sent when
\* the window lapses; further writes within the window only restart the timer.
RawWrite ==
    CASE pending = "none"   -> /\ rx' = Append(rx, "NoticeWrite")
                               /\ delivered' = Append(delivered, "NoticeWrite")
                               /\ pending' = "write"
                               /\ burst' = 1
                               /\ windows' = windows + 1
      [] pending = "write"  -> /\ burst' = burst + 1
                               /\ UNCHANGED <<channel, pending, windows>>
      [] pending = "remove" -> /\ pending' \in {"write", "remove"}
                               /\ burst' = burst + 1
                               /\ UNCHANGED <<channel, windows>>

\* The debouncer on a raw remove: a pending write is superseded.
RawRemove ==
    CASE pending = "remove" -> /\ burst' = burst + 1
                               /\ UNCHANGED <<channel, pending, windows>>
      [] OTHER              -> /\ rx' = Append(rx, "NoticeRemove")
                               /\ delivered' = Append(delivered, "NoticeRemove")
                               /\ pending' = "remove"
                               /\ burst' = IF pending = "none" THEN 1 ELSE burst + 1
                               /\ windows' = IF pending = "none" THEN windows + 1
                                                                ELSE windows

\* main.rs line 59: Subcommand::Restart => std::fs::write(&flags.rstrtr, "\n")
ExtRestart ==
    /\ pc # "done"
    /\ budget < MaxEnv
    /\ budget' = budget + 1
    /\ file' = "present"
    /\ \E s \in BOOLEAN :
         /\ Seen(s)
         /\ IF s THEN RawWrite ELSE UNCHANGED <<channel, debouncer>>
    /\ UNCHANGED <<progVars, watch, proc>>

\* main.rs line 62: Subcommand::Quit => std::fs::remove_file(&flags.rstrtr)
ExtQuit ==
    /\ pc # "done"
    /\ file = "present"
    /\ budget < MaxEnv
    /\ budget' = budget + 1
    /\ file' = "absent"
    /\ \E s \in BOOLEAN :
         /\ Seen(s)
         /\ IF s THEN RawRemove /\ watch' = "stale"
                 ELSE UNCHANGED <<channel, debouncer, watch>>
    /\ UNCHANGED <<progVars, proc>>

\* The debounce window lapses: the pending operation is sent to the channel.
DebounceLapse ==
    /\ pc # "done"
    /\ pending # "none"
    /\ rx' = Append(rx, IF pending = "write" THEN "Write" ELSE "Remove")
    /\ delivered' = Append(delivered,
                            IF pending = "write" THEN "Write" ELSE "Remove")
    /\ pending' = "none"
    /\ UNCHANGED <<progVars, file, watch, burst, windows, proc, budget>>

\* Any other event the watcher may send (Chmod, Rescan, Error, ...).
OtherEvent ==
    /\ pc # "done"
    /\ watch # "off"
    /\ budget < MaxEnv
    /\ budget' = budget + 1
    /\ rx' = Append(rx, "Other")
    /\ delivered' = Append(delivered, "Other")
    /\ UNCHANGED <<progVars, file, watch, debouncer, proc>>

\* The current child exits on its own.
ChildSelfExit ==
    /\ pc # "done"
    /\ gen > 0
    /\ proc[gen].st = "running"
    /\ budget < MaxEnv
    /\ budget' = budget + 1
    /\ proc' = [proc EXCEPT ![gen] = [st |-> "zombie", cause |-> "self"]]
    /\ UNCHANGED <<progVars, channel, file, watch, debouncer>>

\* A child that was sent SIGKILL dies.
ChildDie ==
    /\ gen > 0
    /\ proc[gen].st = "dying"
    /\ proc' = [proc EXCEPT ![gen] = [st |-> "zombie", cause |-> "kill"]]
    /\ UNCHANGED <<progVars, channel, file, watch, debouncer, budget>>

Environment ==
    \/ ExtRestart \/ ExtQuit \/ DebounceLapse \/ OtherEvent
    \/ ChildSelfExit \/ ChildDie

Next == Supervisor \/ Environment

Spec == Init /\ [][Next]_vars

\* The main thread keeps running, a child that was sent SIGKILL dies, and an
\* exit that try_wait can report is eventually reported (its errors are
\* transient).  Nothing is assumed of the external commands or of the child's
\* own exit.
FairSpec ==
    /\ Spec
    /\ WF_vars(Supervisor)
    /\ WF_vars(ChildDie)
    /\ SF_vars(TryWaitExited)

TypeOK ==
    /\ pc \in {"write", "watcher", "watch", "while", "spawn", "recv", "kill",
               "brk", "try_wait", "after", "quit", "done"}
    /\ keep_going \in BOOLEAN
    /\ restart \in BOOLEAN
    /\ msg \in Events \cup {"None", "Timeout"}
    /\ \A i \in 1..Len(rx) : rx[i] \in Events
    /\ file \in {"absent", "present"}
    /\ watch \in {"off", "on", "stale"}
    /\ pending \in {"none", "write", "remove"}
    /\ burst \in 0..MaxEnv
    /\ result \in {"running", "ok", "err"}

(***************************************************************************)
(* Properties.                                                             *)
(***************************************************************************)

\* Generations are numbered from 1; every respawn follows a self-exit or a
\* write, so there are at most MaxEnv + 1 of them.
Gens == 1..(MaxEnv + 1)

Count(seq, e) == Cardinality({i \in DOMAIN seq : seq[i] = e})
ConsumedEv == [i \in DOMAIN consumed |-> consumed[i].ev]
LastKill == kills[Len(kills)]
InLoop == pc \in {"recv", "kill", "brk", "try_wait"}

\* C1: once a Removed event has been consumed (keep_going = false), the run
\* state never returns to "continue" and Command::spawn is never called again,
\* whatever is queued or arrives afterwards.
C1_NoRestartAfterQuit ==
    [][~keep_going => (~keep_going' /\ spawns' = spawns /\ gen' = gen)]_vars

\* C1 witness: the run ended after a quit while a Write (from a control file
\* recreated after the Remove) was still queued.
C1_Witness ==
    /\ pc = "done"
    /\ ~keep_going
    /\ \E i \in DOMAIN rx : rx[i] = "Write"
    /\ spawns = 1

\* C2 (as claimed): if a Write was received while a Remove was already queued
\* behind it, no further generation is ever spawned.
C2_QuitPrecedence ==
    \A i \in DOMAIN consumed :
        (consumed[i].ev = "Write" /\ consumed[i].quitq)
            => spawns = consumed[i].gen

\* C3: a current child that exited on its own while the run state is
\* "continue" is eventually reaped by try_wait and followed by a new spawn,
\* unless a Removed is consumed first; for every generation.
C3_AutoRestart ==
    \A g \in Gens :
        (gen = g /\ InLoop /\ keep_going /\ proc[g] = [st |-> "zombie", cause |-> "self"])
            ~> ((spawns > g /\ proc[g].st = "reaped") \/ ~keep_going)

\* C3 witness: a second generation exists although no event was ever received
\* and no kill was ever sent.
C3_Witness ==
    /\ gen = 2
    /\ proc[1] = [st |-> "reaped", cause |-> "self"]
    /\ consumed = <<>>
    /\ kills = <<>>

\* C4 (as claimed): a Write consumed while the child is running is followed
\* by a spawn of a fresh generation, as long as the run state is "continue".
C4_RestartNeverDropped ==
    \A g \in Gens :
        (gen = g /\ pc = "kill" /\ msg = "Write" /\ proc[g].st = "running")
            ~> (spawns > g \/ ~keep_going)

\* C4 (amended): a Write consumed is answered by one kill call on the current
\* generation in the same cycle; when that kill takes effect the supervisor
\* goes on to spawn a fresh generation unless a Removed is consumed first.
C4_RestartOnModified ==
    /\ [](pc = "brk" /\ msg = "Write"
            => restart /\ cycleKill /\ LastKill.gen = gen /\ LastKill.ev = "Write")
    /\ \A g \in Gens :
        (gen = g /\ pc = "brk" /\ msg = "Write" /\ proc[g].st \in {"dying", "zombie"})
            ~> (spawns > g \/ ~keep_going)

\* C4 witness: generation 1 was killed by a restart request and replaced.
C4_Witness ==
    /\ gen = 2
    /\ proc[1] = [st |-> "reaped", cause |-> "kill"]
    /\ kills = <<[gen |-> 1, ok |-> TRUE, ev |-> "Write"]>>

\* C5: a consumed Remove is answered by a kill call on the current child in
\* the same cycle; the loop is left without try_wait and without another
\* spawn; "Quitting..." is printed and the run returns Ok(()). Every Remove
\* delivered while the supervisor is in its poll loop leads to termination.
C5_GracefulQuit ==
    /\ [](pc = "after" /\ ~keep_going
            => cycleKill /\ LastKill.gen = gen /\ LastKill.ev = "Remove")
    /\ [][~keep_going => (pc' \notin {"recv", "try_wait", "spawn"}
                           /\ spawns' = spawns)]_vars
    /\ [](pc = "done" /\ ~keep_going
            => result = "ok" /\ out[Len(out)] = "Quitting..."
               /\ Count(out, "Quitting...") = 1)
    /\ (InLoop /\ Count(rx, "Remove") > 0) ~> (pc = "done" /\ result = "ok")

\* C5 witness: the run ended by a quit whose kill hit a running child that
\* was never waited for.
C5_Witness ==
    /\ pc = "done"
    /\ ~keep_going
    /\ result = "ok"
    /\ LastKill = [gen |-> gen, ok |-> TRUE, ev |-> "Remove"]
    /\ Unreaped(gen)

\* C6: after a failed spawn (first or later) the poll loop is not entered, the
\* run goes straight to its end, and spawn is not called again.
C6_SpawnFailureFatal ==
    [][spawns' > gen' => /\ pc' \in {"quit", "done"}
                         /\ spawns' = gen' + 1
                         /\ (spawns > gen => spawns' = spawns /\ consumed' = consumed)]_vars

\* C6 witness: a respawn (not the first spawn) failed and the run ended.
C6_Witness ==
    /\ pc = "done"
    /\ gen >= 1
    /\ spawns = gen + 1

\* C7 (as claimed): a run that ends by a quit returns success, a run that
\* ends because spawn failed returns an error.
C7_ExitStatus ==
    pc = "done" =>
        /\ (~keep_going => result = "ok")
        /\ (spawns > gen => result = "err")

\* C8 (as claimed): every Write consumed has produced a new generation by the
\* time the run ends.
C8_ExactlyOneRespawn ==
    pc = "done" =>
        \A i \in DOMAIN consumed :
            consumed[i].ev = "Write" => spawns > consumed[i].gen

\* Events sent by the watcher so far, oldest first.
Sent == ConsumedEv \o rx

\* C8 (amended): each debounce window yields
\* exactly one Write or Remove, however many raw events fell into it; each
\* Write consumed triggers exactly one kill
\* call, on the generation current when it was received, and at most one
\* respawn: the generations that died of a kill never outnumber the kill
\* calls, and spawn is called at most once per reaped generation.
C8_IdempotentRestart ==
    /\ Count(Sent, "Write") + Count(Sent, "Remove")
          + (IF pending = "none" THEN 0 ELSE 1)
          = windows
    /\ LET nW == Count(ConsumedEv, "Write")
           kW == {k \in DOMAIN kills : kills[k].ev = "Write"}
       IN  /\ Cardinality(kW) = IF pc = "kill" /\ msg = "Write" THEN nW - 1 ELSE nW
           /\ Len(kills) <= nW + Count(ConsumedEv, "Remove")
           /\ \A k \in kW : \E i \in DOMAIN consumed :
                  consumed[i].ev = "Write" /\ consumed[i].gen = kills[k].gen
    /\ Cardinality({g \in DOMAIN proc : proc[g].cause = "kill"})
          <= Cardinality({k \in DOMAIN kills : kills[k].ok})
    /\ spawns <= 1 + Cardinality({g \in DOMAIN proc : proc[g].st = "reaped"})

\* C8 witness: two writes fell into one debounce window; the single Write was
\* consumed, one kill was sent, one new generation was spawned.
C8_Witness ==
    /\ budget = 2
    /\ burst = 2
    /\ windows = 1
    /\ Sent = <<"NoticeWrite", "Write">>
    /\ Count(ConsumedEv, "Write") = 1
    /\ Len(kills) = 1
    /\ gen = 2
    /\ file = "present"
    /\ pending = "none"

\* C9: a failure to write the control file or to attach the watcher makes
\* run() return an error with no child ever spawned; the control file is
\* written before the watcher is attached, the watcher before the first spawn.
C9_StartupFailures ==
    /\ (result = "err" => pc = "done" /\ spawns = 0 /\ gen = 0)
    /\ (pc = "done" /\ watch = "off" => result = "err")
    /\ (watch # "off" => ctlOps = 1)
    /\ (spawns > 0 \/ pc \in {"while", "spawn"} => watch # "off")
    /\ ctlOps <= 1

\* C9 witness: the control file was written, attaching the watcher failed.
C9_Witness ==
    /\ result = "err"
    /\ ctlOps = 1
    /\ watch = "off"

\* C10 (as claimed): in a cycle that consumed a Write and called kill, a
\* try_wait that reports "not exited yet" is followed by leaving the poll loop.
C10_RespawnWithoutWaiting ==
    [][(pc = "try_wait" /\ restart /\ cycleKill /\ Alive(gen) /\ pc' # pc /\ out' = out)
          => pc' = "after"]_vars

\* C10 (amended): in such a cycle the supervisor stays in the poll loop with
\* the same child and polls again; spawn is called only after try_wait has
\* reported the previous generation's exit.
C10_RespawnAfterObservedExit ==
    /\ [][(pc = "try_wait" /\ restart /\ cycleKill /\ Alive(gen) /\ pc' # pc /\ out' = out)
            => (pc' = "recv" /\ proc' = proc /\ spawns' = spawns)]_vars
    /\ [][(spawns' > spawns /\ gen > 0) => proc[gen].st = "reaped"]_vars

\* C10 witness: a Write was consumed, kill was called, and the child had not
\* exited when try_wait ran: the supervisor is polling again, same child.
C10_Witness ==
    /\ pc = "recv"
    /\ restart
    /\ cycleKill
    /\ LastKill = [gen |-> gen, ok |-> TRUE, ev |-> "Write"]
    /\ proc[gen].st = "dying"
    /\ spawns = gen

\* C11 (as claimed): a restart cycle whose kill call failed is followed by a
\* respawn, as it would be had the kill succeeded.
C11_KillFailureSameOutcome ==
    \A g \in Gens :
        (gen = g /\ pc = "brk" /\ msg = "Write" /\ cycleKill /\ ~LastKill.ok)
            ~> (spawns > g \/ ~keep_going)

\* C11 (amended): a failed kill never aborts the run: the cycle goes on as
\* after a successful one, nothing is printed and the run state is untouched.
\* A quit then ends the run with Ok(()) and no further spawn; a restart goes
\* on to the status check and leaves the poll loop only if that reports the
\* child's exit.
C11_KillFailureNonFatal ==
    /\ [][pc = "kill" /\ pc' # pc
            => /\ pc' = "brk"
               /\ result' = result /\ out' = out
               /\ keep_going' = keep_going /\ restart' = restart]_vars
    /\ [][pc = "brk" /\ keep_going /\ pc' # pc => pc' = "try_wait"]_vars
    /\ [][pc = "try_wait" /\ pc' = "after" => proc'[gen].st = "reaped"]_vars
    /\ (pc = "brk" /\ ~keep_going /\ cycleKill /\ ~LastKill.ok)
          ~> (pc = "done" /\ result = "ok" /\ spawns = gen)

\* C11 witness: both the kill of a restart and the kill of the quit failed,
\* the child kept running, and the run ended with Ok(()) after one spawn.
C11_Witness ==
    /\ pc = "done"
    /\ result = "ok"
    /\ kills = <<[gen |-> 1, ok |-> FALSE, ev |-> "Write"],
                 [gen |-> 1, ok |-> FALSE, ev |-> "Remove"]>>
    /\ proc = <<[st |-> "running", cause |-> "none"]>>
    /\ spawns = 1

\* C12: an error of try_wait leaves the supervisor in the poll loop with the
\* same child and the same run state: no spawn, no termination, next a recv.
C12_TryWaitErrRecoverable ==
    [][(pc = "try_wait" /\ out' = Append(out, "Error try_wait on process"))
          => /\ pc' = "recv"
             /\ proc' = proc
             /\ keep_going' = keep_going
             /\ spawns' = spawns
             /\ result' = result]_vars

\* C12 witness: try_wait failed on a child that had already exited; the
\* supervisor is about to poll again, the child still un-reaped.
C12_Witness ==
    /\ pc = "recv"
    /\ out = <<"Error try_wait on process">>
    /\ proc = <<[st |-> "zombie", cause |-> "self"]>>
    /\ keep_going
    /\ result = "running"

NoEvent == msg \notin {"Write", "Remove"}

\* C13: a poll that yields a timeout (or receive error) or any event other
\* than Write and Remove requests nothing: no kill is issued, keep_going and
\* the child handle stay as they are, the status check of that cycle is still
\* made, and the poll loop is left only if that check reports an exit.
C13_OtherIsNoEvent ==
    /\ [](pc \in {"kill", "brk", "try_wait"} /\ NoEvent
            => ~restart /\ keep_going /\ ~cycleKill)
    /\ [][pc = "recv" /\ pc' # pc /\ msg' \notin {"Write", "Remove"}
            => keep_going' = keep_going /\ proc' = proc /\ kills' = kills]_vars
    /\ [][pc = "kill" /\ NoEvent /\ pc' # pc
            => pc' = "brk" /\ kills' = kills /\ proc' = proc]_vars
    /\ [][pc = "brk" /\ NoEvent /\ pc' # pc => pc' = "try_wait"]_vars
    /\ [][pc = "try_wait" /\ NoEvent /\ pc' # pc
            => pc' = "recv" \/ (pc' = "after" /\ proc'[gen].st = "reaped")]_vars

\* C13 witness: an event that is neither Write nor Remove was received, no
\* kill was ever sent, and the cycle has reached its status check.
C13_Witness ==
    /\ pc = "try_wait"
    /\ msg = "Other"
    /\ kills = <<>>
    /\ keep_going
    /\ proc = <<[st |-> "running", cause |-> "none"]>>

\* C14: run() writes the control file exactly once, at line 76; every later
\* change of the file is made by an external command, whatever path the run
\* takes to its end.
C14_ControlFileUntouched ==
    /\ [][ctlOps' # ctlOps => pc = "write" /\ ctlOps = 0 /\ ctlOps' = 1]_vars
    /\ [][file' # file => pc = "write" \/ (budget' = budget + 1 /\ pc' = pc)]_vars
    /\ [](pc \notin {"write"} /\ result # "err" => ctlOps = 1)

\* C14 witness: the run ended by a quit: the file was removed by the Quit
\* command, the supervisor's only operation on it was the initial write.
C14_Witness ==
    /\ pc = "done"
    /\ ~keep_going
    /\ file = "absent"
    /\ ctlOps = 1
    /\ gen = 2

\* The requests (Write, Remove) received so far and the kill calls made so
\* far, each as <<event, generation>>.
IsRequest(c) == c.ev \in {"Write", "Remove"}
Requests ==
    LET rs == SelectSeq(consumed, IsRequest)
    IN  [i \in DOMAIN rs |-> <<rs[i].ev, rs[i].gen>>]
KillTargets == [k \in DOMAIN kills |-> <<kills[k].ev, kills[k].gen>>]

\* C15: events are received in the order the watcher sent them, none lost or
\* overtaken, one per poll cycle at most; the kill an event asks for is made
\* before the next event is read, on the generation current when the event
\* was read.
C15_EventOrdering ==
    /\ [](delivered = ConsumedEv \o rx)
    /\ [](pc # "kill" => KillTargets = Requests)
    /\ [](pc = "kill" /\ ~NoEvent
            => Requests = Append(KillTargets, <<msg, gen>>))
    /\ [][consumed' # consumed
            => /\ pc = "recv" /\ pc' = "kill"
               /\ Len(consumed') = Len(consumed) + 1
               /\ consumed'[Len(consumed')].gen = gen]_vars

\* C15 witness: events were read on both sides of a respawn, in the order
\* sent; the Write read after the respawn had its kill sent to generation 2.
C15_Witness ==
    /\ gen = 2
    /\ ConsumedEv = <<"NoticeWrite", "Other", "Write">>
    /\ consumed[2].gen = 1
    /\ consumed[3].gen = 2
    /\ proc[1] = [st |-> "reaped", cause |-> "self"]
    /\ KillTargets = << <<"Write", 2>> >>

Reaped == {g \in DOMAIN proc : proc[g].st = "reaped"}
Exited == {g \in DOMAIN proc : proc[g].st \in {"zombie", "reaped"}}

\* C16 (as claimed): when the run has ended there is one "Exit" line per
\* generation that exited, one "Restarting..." line per spawn after the first,
\* and exactly one "Quitting..." line.
C16_StatusLines ==
    pc = "done" =>
        /\ Count(out, "Exit") = Cardinality(Exited)
        /\ Count(out, "Restarting...") = IF spawns = 0 THEN 0 ELSE spawns - 1
        /\ Count(out, "Quitting...") = 1

\* C16 (amended): one "Exit" line per generation whose exit try_wait
\* reported; one "Restarting..." line, right after an "Exit" line, before each
\* spawn other than the first and none once a quit was observed; one final
\* "Quitting..." line when the run ends through its loop (quit or failed
\* spawn), none when it ends with a start-up error.
C16_StatusLinesTrackLoop ==
    /\ [](Count(out, "Exit") = Cardinality(Reaped))
    /\ [](Count(out, "Restarting...")
            = IF spawns = 0 THEN 0
              ELSE IF pc \in {"while", "spawn"} /\ keep_going THEN spawns
              ELSE spawns - 1)
    /\ [](\A i \in DOMAIN out :
            out[i] = "Restarting..." => i > 1 /\ out[i - 1] = "Exit")
    /\ [](Count(out, "Quitting...") = IF pc = "done" /\ result = "ok" THEN 1 ELSE 0)
    /\ [](pc = "done" /\ result = "ok" => out[Len(out)] = "Quitting...")
    /\ [][~keep_going
             => Count(out', "Restarting...") = Count(out, "Restarting...")]_vars

\* C16 witness: one restart and a quit: generation 1 was reported and
\* replaced, generation 2 was killed by the quit and got no "Exit" line.
C16_Witness ==
    /\ pc = "done"
    /\ ~keep_going
    /\ gen = 2
    /\ out = <<"Exit", "Restarting...", "Quitting...">>
    /\ proc[2].st = "zombie"

\* C17: at most one generation is not yet observed as exited, and it is the
\* newest one; a spawn follows only a status check on the previous generation
\* that returned its exit status; when the run has ended every earlier
\* generation is reaped.
C17_AtMostOneLiveChild ==
    /\ [](Cardinality({g \in DOMAIN proc : proc[g].st # "reaped"}) <= 1)
    /\ [](\A g \in DOMAIN proc : g < gen => proc[g].st = "reaped")
    /\ [][gen' > gen /\ gen > 0 => proc[gen].st = "reaped" /\ gen' = gen + 1]_vars
    /\ [][(gen > 0 /\ proc'[gen].st = "reaped" /\ proc[gen].st # "reaped")
             => pc = "try_wait" /\ pc' = "after" /\ proc[gen].st = "zombie"]_vars
    /\ [](pc = "done" => \A g \in DOMAIN proc : Unreaped(g) => g = gen)

\* C17 witness: the run ended on a quit with generation 1 reaped and
\* generation 2, current at the quit, left un-reaped.
C17_Witness ==
    /\ pc = "done"
    /\ ~keep_going
    /\ gen = 2
    /\ proc[1].st = "reaped"
    /\ Unreaped(2)
    /\ kills # <<>>

\* A Modified event was just consumed while the current child had already
\* exited on its own and was not yet waited for.
Race(g) ==
    /\ gen = g
    /\ pc = "kill"
    /\ msg = "Write"
    /\ proc[g] = [st |-> "zombie", cause |-> "self"]

====
